---------------------------- MODULE Spec2Model ----------------------------
(***************************************************************************)
(* Model of the Launchpad Mini controller (LaunchDevice) and its message   *)
(* codec (MatPos / PadIdentifier / Key).                                   *)
(*                                                                         *)
(* A behaviour is a caller invoking LaunchDevice commands one after the    *)
(* other.  Each command is one action that runs the whole method: it takes *)
(* the controller from pc = "idle" to pc = "returned", leaving in cmd,     *)
(* calls, result, prev_buffer and overflowed what the caller and the       *)
(* transport observed.  The step "ret" is the caller taking the result and *)
(* getting ready for the next command.                                     *)
(***************************************************************************)
EXTENDS Integers, Sequences, FiniteSets

VARIABLES
    buffer_setting,   \* LaunchDevice.buffer_setting (u8)
    overflow_checks,  \* build profile: TRUE iff u8 arithmetic overflow panics
    pc,               \* "idle" | "returned" | "panicked"
    cmd,              \* the command last invoked: [op, args]
    prev_buffer,      \* buffer_setting when that command was entered
    calls,            \* transport calls that command made, in order
    result,           \* what that command returned: [tag, val]
    overflowed,       \* TRUE iff a u8 operation of that command left 0..255
    mode_cmd,         \* the buffer-mode command invoked last, "new" if none
    prev_mode_cmd     \* mode_cmd when the command in cmd was entered

vars == <<buffer_setting, overflow_checks, pc, cmd, prev_buffer, calls,
          result, overflowed, mode_cmd, prev_mode_cmd>>

----------------------------------------------------------------------------
(* Bounds of the model *)

MaxRow == 8
MaxCol == 8
MaxNumerator == 20
MaxDenominator == 30
MaxVel == 127
MaxReadN == 2

----------------------------------------------------------------------------
(* Sizes fixed by the code *)

GRID_ROWS == 8
GRID_COLS == 9
CTL_ROW_LEN == 8

----------------------------------------------------------------------------
(* u8 arithmetic *)

U8Modulus == 256

InU8(x) == x >= 0 /\ x < U8Modulus

Wrap(x) == x % U8Modulus

RECURSIVE BitAnd(_, _)
BitAnd(a, b) ==
    IF a = 0 \/ b = 0 THEN 0
    ELSE (a % 2) * (b % 2) + 2 * BitAnd(a \div 2, b \div 2)

RECURSIVE BitOr(_, _)
BitOr(a, b) ==
    IF a = 0 THEN b
    ELSE IF b = 0 THEN a
    ELSE (IF a % 2 = 1 \/ b % 2 = 1 THEN 1 ELSE 0)
         + 2 * BitOr(a \div 2, b \div 2)

----------------------------------------------------------------------------
(* Enumerations of utils/misc.rs *)

Off == 128
On == 144
Ctl == 176

Black == 0
Red == 3
Green == 48

Color == {0, 16, 32, 48, 49, 33, 50, 34, 17, 51, 35, 18, 19, 3, 2, 1}

COLOR_GRADIENT ==
    <<0, 16, 32, 48, 49, 33, 50, 34, 17, 51, 35, 18, 19, 3, 2, 1>>

ZeroOnly == 0
OneActive == 1
ZeroActive == 4
OneOnly == 5

BufferSetting == {ZeroOnly, OneActive, ZeroActive, OneOnly}

XY == 1
DrumRack == 2

GridMode == {XY, DrumRack}

----------------------------------------------------------------------------
(* Messages and the transport *)

LaunchMessage(status, data1, data2) ==
    [status |-> status, data1 |-> data1, data2 |-> data2]

\* the errors a transport call is taken to fail with
TransportErrors == {"Invalid", "GenericBackendErr"}

TransportResults == {"Ok"} \cup TransportErrors

write_message(msg, r) ==
    [fn |-> "write_message", msgs |-> <<msg>>, count |-> 0, res |-> r]

write_messages(msgs, r) ==
    [fn |-> "write_messages", msgs |-> msgs, count |-> 0, res |-> r]

Ok(val) == [tag |-> "Ok", val |-> val]

Err(e) == [tag |-> "Err", val |-> <<e>>]

Panic == [tag |-> "Panic", val |-> <<>>]

\* UnitResult wrapping every transport error into GenericBackendErr
UnitResult_rewrapped(r) ==
    IF r = "Ok" THEN Ok(<<>>) ELSE Err("GenericBackendErr")

\* `out_port.write...(..)?; Ok(())`
UnitResult(r) == IF r = "Ok" THEN Ok(<<>>) ELSE Err(r)

----------------------------------------------------------------------------
(* The codec *)

MatPos(row, col) == [row |-> row, col |-> col]

\* PadKeyExact without the control-row case: every row keyed 0x10*row + col
PadKeyExact_flat(pos) ==
    (16 * pos.row) + pos.col

\* PadIdentifier::from(MatPos), before the key is narrowed to u8
PadKeyExact(pos) ==
    IF pos.row > 7 THEN 104 + pos.col ELSE (16 * pos.row) + pos.col

PadIdentifierFromMatPos(pos) ==
    IF pos.row > 7
    THEN [status |-> Ctl, key |-> Wrap(PadKeyExact(pos))]
    ELSE [status |-> On, key |-> Wrap(PadKeyExact(pos))]

PadIdentifierFromLaunchMessage(msg) ==
    IF msg.status = Ctl THEN [status |-> Ctl, key |-> msg.data1]
    ELSE IF msg.status = On THEN [status |-> On, key |-> msg.data1]
    ELSE [status |-> Off, key |-> msg.data1]

\* MatPosFromPadIdentifier with the note grid taken to be 8 columns wide
MatPosFromPadIdentifier_cols8(padid) ==
    IF padid.status = Ctl
    THEN [row |-> 8, col |-> padid.key % 104]
    ELSE [row |-> padid.key \div 16, col |-> padid.key % 8]

MatPosFromPadIdentifier(padid) ==
    IF padid.status = Ctl
    THEN [row |-> 8, col |-> padid.key % 104]
    ELSE [row |-> padid.key \div 16, col |-> padid.key % 16]

MatPosFromLaunchMessage(msg) ==
    MatPosFromPadIdentifier(PadIdentifierFromLaunchMessage(msg))

KeyFromMatPos(pos) ==
    IF pos.row > 7 THEN 121 ELSE PadIdentifierFromMatPos(pos).key

\* TRUE iff Key::from(pos) evaluates a u8 operation whose exact value is
\* not a u8
KeyOverflows(pos) ==
    /\ pos.row <= 7
    /\ \/ ~InU8(16 * pos.row)
       \/ ~InU8(PadKeyExact(pos))

----------------------------------------------------------------------------
(* The controller *)

Init ==
    /\ buffer_setting = 0
    /\ overflow_checks \in BOOLEAN
    /\ pc = "idle"
    /\ cmd = [op |-> "new", args |-> <<>>]
    /\ prev_buffer = 0
    /\ calls = <<>>
    /\ result = [tag |-> "None", val |-> <<>>]
    /\ overflowed = FALSE
    /\ mode_cmd = [op |-> "new", args |-> <<>>]
    /\ prev_mode_cmd = [op |-> "new", args |-> <<>>]

\* the commands that set the buffer mode
ModeOps ==
    {"set_buffer_mode", "disable_double_buffering", "swap_buffers",
     "hard_swap"}

\* A command that ran to its return: what it leaves behind.
Returns(op, args, made, res, buf) ==
    /\ pc = "idle"
    /\ pc' = "returned"
    /\ cmd' = [op |-> op, args |-> args]
    /\ prev_buffer' = buffer_setting
    /\ calls' = made
    /\ result' = res
    /\ buffer_setting' = buf
    /\ overflowed' = FALSE
    /\ mode_cmd' = IF op \in ModeOps THEN [op |-> op, args |-> args]
                   ELSE mode_cmd
    /\ prev_mode_cmd' = mode_cmd
    /\ UNCHANGED overflow_checks

\* A command in which a u8 operation overflowed: with overflow checks the
\* thread panics there, having made the calls `made`; without them the
\* value wraps and the command goes on to its return.
Overflows(op, args, made) ==
    /\ pc = "idle"
    /\ overflow_checks
    /\ pc' = "panicked"
    /\ cmd' = [op |-> op, args |-> args]
    /\ prev_buffer' = buffer_setting
    /\ calls' = made
    /\ result' = Panic
    /\ overflowed' = TRUE
    /\ prev_mode_cmd' = mode_cmd
    /\ UNCHANGED <<buffer_setting, overflow_checks, mode_cmd>>

ReturnsWrapped(op, args, made, res, buf) ==
    /\ pc = "idle"
    /\ ~overflow_checks
    /\ pc' = "returned"
    /\ cmd' = [op |-> op, args |-> args]
    /\ prev_buffer' = buffer_setting
    /\ calls' = made
    /\ result' = res
    /\ buffer_setting' = buf
    /\ overflowed' = TRUE
    /\ mode_cmd' = IF op \in ModeOps THEN [op |-> op, args |-> args]
                   ELSE mode_cmd
    /\ prev_mode_cmd' = mode_cmd
    /\ UNCHANGED overflow_checks

\* is_double_buffered comparing the whole byte, the copy nibble not masked off
is_double_buffered_unmasked ==
    buffer_setting = OneActive \/ buffer_setting = ZeroActive

is_double_buffered ==
    LET buffered == BitAnd(15, buffer_setting)
    IN  buffered = OneActive \/ buffered = ZeroActive

send_ctl_msg_call(data1, data2, r) ==
    write_message(LaunchMessage(176, data1, data2), r)

send_ctl_msg(data1, data2, r) ==
    Returns("send_ctl_msg", <<data1, data2>>,
            <<send_ctl_msg_call(data1, data2, r)>>, UnitResult(r),
            buffer_setting)

\* reset that also clears the stored buffer byte
reset_clearing(r) ==
    Returns("reset", <<>>, <<send_ctl_msg_call(0, 0, r)>>, UnitResult(r), 0)

reset(r) ==
    Returns("reset", <<>>, <<send_ctl_msg_call(0, 0, r)>>, UnitResult(r),
            buffer_setting)

select_mode(mode, r) ==
    Returns("select_mode", <<mode>>, <<send_ctl_msg_call(0, mode, r)>>,
            UnitResult(r), buffer_setting)

set_position(row, col, color, r) ==
    LET pos == MatPos(row, col)
        made == <<write_message(
                    LaunchMessage(144, KeyFromMatPos(pos), color), r)>>
    IN  IF KeyOverflows(pos)
        THEN \/ Overflows("set_position", <<row, col, color>>, <<>>)
             \/ ReturnsWrapped("set_position", <<row, col, color>>, made,
                               UnitResult(r), buffer_setting)
        ELSE Returns("set_position", <<row, col, color>>, made,
                     UnitResult(r), buffer_setting)

\* set_all_batch with the loops nested the other way round (column outer)
set_all_batch_colmajor(color) ==
    [i \in 1..(GRID_ROWS * GRID_COLS) |->
        LaunchMessage(On,
                      KeyFromMatPos(MatPos((i - 1) % GRID_ROWS,
                                           (i - 1) \div GRID_ROWS)),
                      color)]

\* the 8x9 batch of set_all, row outer loop, column inner loop
set_all_batch(color) ==
    [i \in 1..(GRID_ROWS * GRID_COLS) |->
        LaunchMessage(On,
                      KeyFromMatPos(MatPos((i - 1) \div GRID_COLS,
                                           (i - 1) % GRID_COLS)),
                      color)]

set_all(color, r) ==
    Returns("set_all", <<color>>, <<write_messages(set_all_batch(color), r)>>,
            UnitResult(r), buffer_setting)

blackout(r) ==
    Returns("blackout", <<>>, <<write_messages(set_all_batch(Black), r)>>,
            UnitResult(r), buffer_setting)

\* the transport calls full_blackout makes when none fails
full_blackout_plan ==
    <<write_messages(set_all_batch(Black), "Ok")>>
    \o [i \in 1..CTL_ROW_LEN |-> send_ctl_msg_call(104 + (i - 1), Black, "Ok")]

\* full_blackout going on to the remaining writes after one has failed
full_blackout_going_on(failAt, err) ==
    LET plan == full_blackout_plan
        made == [i \in 1..Len(plan) |->
                    IF i = failAt THEN [plan[i] EXCEPT !.res = err]
                    ELSE plan[i]]
    IN  Returns("full_blackout", <<>>, made,
                IF failAt = 0 THEN Ok(<<>>) ELSE Err(err), buffer_setting)

\* failAt = 0: no call fails; failAt = k: the k-th call fails with err and
\* `?` returns from the command there
full_blackout(failAt, err) ==
    LET plan == full_blackout_plan
        n == IF failAt = 0 THEN Len(plan) ELSE failAt
        made == [i \in 1..n |->
                    IF i = failAt THEN [plan[i] EXCEPT !.res = err]
                    ELSE plan[i]]
    IN  Returns("full_blackout", <<>>, made,
                IF failAt = 0 THEN Ok(<<>>) ELSE Err(err), buffer_setting)

\* set_matrix_batch walking the grid column by column
set_matrix_batch_colmajor(mat) ==
    [i \in 1..(GRID_ROWS * GRID_COLS) |->
        LaunchMessage(144,
                      KeyFromMatPos(MatPos((i - 1) % GRID_ROWS,
                                           (i - 1) \div GRID_ROWS)),
                      mat[(i - 1) % GRID_ROWS][(i - 1) \div GRID_ROWS])]

set_matrix_batch(mat) ==
    [i \in 1..(GRID_ROWS * GRID_COLS) |->
        LaunchMessage(144,
                      KeyFromMatPos(MatPos((i - 1) \div GRID_COLS,
                                           (i - 1) % GRID_COLS)),
                      mat[(i - 1) \div GRID_COLS][(i - 1) % GRID_COLS])]

set_matrix(mat, r) ==
    Returns("set_matrix", <<mat>>, <<write_messages(set_matrix_batch(mat), r)>>,
            UnitResult(r), buffer_setting)

\* set_first_row_batch taking its keys from Key::from(MatPos::new(8, i))
set_first_row_batch_by_key(color) ==
    [i \in 1..CTL_ROW_LEN |->
        LaunchMessage(176, KeyFromMatPos(MatPos(8, i - 1)), color)]

set_first_row_batch(color) ==
    [i \in 1..CTL_ROW_LEN |-> LaunchMessage(176, 104 + (i - 1), color)]

set_first_row(color, r) ==
    Returns("set_first_row", <<color>>,
            <<write_messages(set_first_row_batch(color), r)>>,
            UnitResult(r), buffer_setting)

\* buffer_mode_byte with only the copy flag in the high nibble: 0x10 or
\* 0x00, then `|= setting`
buffer_mode_byte_flag_only(setting, copy) ==
    BitOr(IF copy THEN 16 ELSE 0, setting)

\* buffer_mode_byte with `=` for `|=`: the setting overwrites the copy nibble
buffer_mode_byte_assigned(setting, copy) ==
    setting

\* the byte set_buffer_mode stores: 0x30 or 0x20, then `|= setting`
buffer_mode_byte(setting, copy) ==
    BitOr(IF copy THEN 48 ELSE 32, setting)

\* the body of set_buffer_mode, run on behalf of the command op
set_buffer_mode_for(op, args, setting, copy, r) ==
    LET byte == buffer_mode_byte(setting, copy)
    IN  Returns(op, args, <<send_ctl_msg_call(0, byte, r)>>, UnitResult(r),
                byte)

set_buffer_mode(setting, copy, r) ==
    set_buffer_mode_for("set_buffer_mode", <<setting, copy>>, setting, copy, r)

disable_double_buffering(r) ==
    set_buffer_mode_for("disable_double_buffering", <<>>, ZeroOnly, FALSE, r)

\* swap_target toggling between the single-buffer settings
swap_target_single ==
    LET setting == BitAnd(buffer_setting, 15)
    IN  IF setting = OneOnly THEN ZeroOnly ELSE OneOnly

\* swap_target comparing the stored byte without `& 0x0F`
swap_target_unmasked ==
    IF buffer_setting = OneActive THEN ZeroActive ELSE OneActive

\* the setting swap_buffers switches to
swap_target ==
    LET setting == BitAnd(buffer_setting, 15)
    IN  IF setting = OneActive THEN ZeroActive ELSE OneActive

swap_buffers(copy, r) ==
    set_buffer_mode_for("swap_buffers", <<copy>>, swap_target, copy, r)

hard_swap(r) ==
    set_buffer_mode_for("hard_swap", <<>>, swap_target, FALSE, r)

send_note_msg(on, key, vel, r) ==
    LET vel2 == IF ~is_double_buffered THEN BitOr(vel, 12) ELSE vel
        mtype == IF on THEN On ELSE Off
    IN  Returns("send_note_msg", <<on, key, vel>>,
                <<write_message(LaunchMessage(mtype, key, vel2), r)>>,
                UnitResult(r), buffer_setting)

send_messages(msgs, r) ==
    Returns("send_messages", <<msgs>>, <<write_messages(msgs, r)>>,
            UnitResult(r), buffer_setting)

----------------------------------------------------------------------------
(* set_duty_cycle *)

clamp_numerator(numerator) ==
    IF numerator > 16 THEN 16 ELSE IF numerator < 1 THEN 1 ELSE numerator

clamp_denominator(denominator) ==
    IF denominator > 18 THEN 18
    ELSE IF denominator < 3 THEN 3 ELSE denominator

\* `0x10 * (n - base) + (d - 3)` in u8: the exact value of every operation
\* on its (wrapped) operands, in evaluation order
duty_steps(n, d, base) ==
    LET s1 == n - base
        s2 == 16 * Wrap(s1)
        s3 == d - 3
        s4 == Wrap(s2) + Wrap(s3)
    IN  <<s1, s2, s3, s4>>

duty_value(n, d, base) == Wrap(duty_steps(n, d, base)[4])

duty_overflows(n, d, base) ==
    \E i \in 1..4 : ~InU8(duty_steps(n, d, base)[i])

set_duty_cycle(numerator, denominator, r) ==
    LET n == clamp_numerator(numerator)
        d == clamp_denominator(denominator)
        data1 == IF n < 9 THEN 30 ELSE 31
        data2 == IF n < 9 THEN duty_value(n, d, 1) ELSE duty_value(n, d, 9)
        ovf == \/ duty_overflows(n, d, 9)
               \/ n < 9 /\ duty_overflows(n, d, 1)
        made == <<write_message(LaunchMessage(176, data1, data2), r)>>
        args == <<numerator, denominator>>
    IN  IF ovf
        THEN \/ Overflows("set_duty_cycle", args, <<>>)
             \/ ReturnsWrapped("set_duty_cycle", args, made, UnitResult(r),
                               buffer_setting)
        ELSE Returns("set_duty_cycle", args, made, UnitResult(r),
                     buffer_setting)

----------------------------------------------------------------------------
(* The input port *)

in_poll(t) ==
    [fn |-> "poll", msgs |-> <<>>, count |-> 0,
     res |-> IF t.tag = "Ok" THEN "Ok" ELSE t.val[1]]

in_read_n(n, t) ==
    [fn |-> "read_n", msgs |-> <<>>, count |-> n,
     res |-> IF t.tag = "Ok" THEN "Ok" ELSE t.val[1]]

\* t is what in_port.poll() returns
poll(t) ==
    Returns("poll", <<>>, <<in_poll(t)>>, t, buffer_setting)

\* t is what in_port.read_n(1) returns
read_single_msg(t) ==
    LET res == IF t.tag = "Err" THEN t
               ELSE IF t.val[1] = "None" THEN Ok(<<"None">>)
               ELSE IF Len(t.val[2]) = 0 THEN Ok(<<"None">>)
               ELSE Ok(<<"Some", t.val[2][1]>>)
    IN  Returns("read_single_msg", <<>>, <<in_read_n(1, t)>>, res,
                buffer_setting)

\* t is what in_port.read_n(n) returns
read_n_msgs(n, t) ==
    Returns("read_n_msgs", <<n>>, <<in_read_n(n, t)>>, t, buffer_setting)

ret ==
    /\ pc = "returned"
    /\ pc' = "idle"
    /\ cmd' = [op |-> "new", args |-> <<>>]
    /\ prev_buffer' = buffer_setting
    /\ calls' = <<>>
    /\ result' = [tag |-> "None", val |-> <<>>]
    /\ overflowed' = FALSE
    /\ prev_mode_cmd' = mode_cmd
    /\ UNCHANGED <<buffer_setting, overflow_checks, mode_cmd>>

----------------------------------------------------------------------------
(* Inputs of the model *)

NoteKeys == {0, 53, 120, 127}

CtlData1 == {0, 30, 104}

CtlData2 == {0, 1, 33, 52, 127}

OutBatches ==
    {<<>>,
     <<LaunchMessage(144, 53, 51)>>,
     <<LaunchMessage(176, 0, 49), LaunchMessage(128, 53, 0)>>}

\* grids for set_matrix: one colour everywhere, the palette laid out cell by
\* cell, a red diagonal on black, and one green cell on black, for each cell
Grids ==
    {[row \in 0..(GRID_ROWS - 1) |-> [col \in 0..(GRID_COLS - 1) |-> color]] :
        color \in Color}
    \cup
    {[row \in 0..(GRID_ROWS - 1) |-> [col \in 0..(GRID_COLS - 1) |->
        COLOR_GRADIENT[((row * GRID_COLS + col) % 16) + 1]]],
     [row \in 0..(GRID_ROWS - 1) |-> [col \in 0..(GRID_COLS - 1) |->
        IF row = col THEN Red ELSE Black]]}
    \cup
    {[row \in 0..(GRID_ROWS - 1) |-> [col \in 0..(GRID_COLS - 1) |->
        IF row = r0 /\ col = c0 THEN Green ELSE Black]] :
        r0 \in 0..(GRID_ROWS - 1), c0 \in 0..(GRID_COLS - 1)}

InboundStatus == {128, 144, 176, 160}

\* every value of the u8 data1
InboundKeys == 0..(U8Modulus - 1)

InboundMsgs ==
    {LaunchMessage(s, k, v) : s \in InboundStatus, k \in InboundKeys,
                              v \in {0, 127}}

InboundBatches ==
    {<<>>} \cup {<<m>> : m \in InboundMsgs}
    \cup {<<m, LaunchMessage(128, m.data1, 0)>> : m \in InboundMsgs}

\* Ok(true) and Ok(false) are written Ok(<<"true">>) and Ok(<<"false">>)
PollReturns ==
    {Ok(<<"true">>), Ok(<<"false">>)} \cup {Err(e) : e \in TransportErrors}

ReadReturns ==
    {Ok(<<"None">>)} \cup {Ok(<<"Some", b>>) : b \in InboundBatches}
    \cup {Err(e) : e \in TransportErrors}

----------------------------------------------------------------------------
(* The caller: each command on every input of the model *)

call_reset ==
    /\ pc = "idle"
    /\ \E r \in TransportResults : reset(r)

call_select_mode ==
    /\ pc = "idle"
    /\ \E mode \in GridMode, r \in TransportResults : select_mode(mode, r)

call_set_position ==
    /\ pc = "idle"
    /\ \E row \in 0..MaxRow, col \in 0..MaxCol, color \in Color,
          r \in TransportResults : set_position(row, col, color, r)

call_set_all ==
    /\ pc = "idle"
    /\ \E color \in Color, r \in TransportResults : set_all(color, r)

call_blackout ==
    /\ pc = "idle"
    /\ \E r \in TransportResults : blackout(r)

call_full_blackout ==
    /\ pc = "idle"
    /\ \E failAt \in 0..Len(full_blackout_plan), err \in TransportErrors :
          full_blackout(failAt, err)

call_set_matrix ==
    /\ pc = "idle"
    /\ \E mat \in Grids, r \in TransportResults : set_matrix(mat, r)

call_set_first_row ==
    /\ pc = "idle"
    /\ \E color \in Color, r \in TransportResults : set_first_row(color, r)

call_set_buffer_mode ==
    /\ pc = "idle"
    /\ \E setting \in BufferSetting, copy \in BOOLEAN,
          r \in TransportResults : set_buffer_mode(setting, copy, r)

call_disable_double_buffering ==
    /\ pc = "idle"
    /\ \E r \in TransportResults : disable_double_buffering(r)

call_swap_buffers ==
    /\ pc = "idle"
    /\ \E copy \in BOOLEAN, r \in TransportResults : swap_buffers(copy, r)

call_hard_swap ==
    /\ pc = "idle"
    /\ \E r \in TransportResults : hard_swap(r)

call_set_duty_cycle ==
    /\ pc = "idle"
    /\ \E numerator \in 0..MaxNumerator, denominator \in 0..MaxDenominator,
          r \in TransportResults : set_duty_cycle(numerator, denominator, r)

call_send_note_msg ==
    /\ pc = "idle"
    /\ \E on \in BOOLEAN, key \in NoteKeys, vel \in 0..MaxVel,
          r \in TransportResults : send_note_msg(on, key, vel, r)

call_send_ctl_msg ==
    /\ pc = "idle"
    /\ \E data1 \in CtlData1, data2 \in CtlData2, r \in TransportResults :
          send_ctl_msg(data1, data2, r)

call_send_messages ==
    /\ pc = "idle"
    /\ \E msgs \in OutBatches, r \in TransportResults : send_messages(msgs, r)

call_poll ==
    /\ pc = "idle"
    /\ \E t \in PollReturns : poll(t)

call_read_single_msg ==
    /\ pc = "idle"
    /\ \E t \in ReadReturns : read_single_msg(t)

call_read_n_msgs ==
    /\ pc = "idle"
    /\ \E n \in 0..MaxReadN, t \in ReadReturns : read_n_msgs(n, t)

Next ==
    \/ call_reset
    \/ call_select_mode
    \/ call_set_position
    \/ call_set_all
    \/ call_blackout
    \/ call_full_blackout
    \/ call_set_matrix
    \/ call_set_first_row
    \/ call_set_buffer_mode
    \/ call_disable_double_buffering
    \/ call_swap_buffers
    \/ call_hard_swap
    \/ call_set_duty_cycle
    \/ call_send_note_msg
    \/ call_send_ctl_msg
    \/ call_send_messages
    \/ call_poll
    \/ call_read_single_msg
    \/ call_read_n_msgs
    \/ ret

Spec == Init /\ [][Next]_vars

----------------------------------------------------------------------------
(* Properties *)

\* the one message of a command that made exactly one write_message call
SentOne(m) ==
    /\ Len(calls) = 1
    /\ calls[1].fn = "write_message"
    /\ calls[1].msgs = <<m>>

\* C1: note-grid round trip.  For every row in 0..7, col in 0..8 and every
\* colour, decoding the message set_position(row, col, color) hands to the
\* transport with MatPos::from(LaunchMessage) gives back (row, col).
C1_NoteGridRoundTrip ==
    (/\ pc = "returned"
     /\ cmd.op = "set_position"
     /\ cmd.args[1] \in 0..7
     /\ cmd.args[2] \in 0..8)
    => /\ Len(calls) = 1
       /\ calls[1].fn = "write_message"
       /\ Len(calls[1].msgs) = 1
       /\ MatPosFromLaunchMessage(calls[1].msgs[1])
             = [row |-> cmd.args[1], col |-> cmd.args[2]]

\* set_position(7, 8, YellOrange) was written and accepted
C1_Witness ==
    /\ pc = "returned"
    /\ cmd.op = "set_position"
    /\ cmd.args = <<7, 8, 51>>
    /\ calls[1].res = "Ok"
    /\ calls[1].msgs[1].data1 = 120

\* C2: control-row round trip.  For every col in 0..7, decoding the message
\* set_position(8, col, color) hands to the transport gives back (8, col).
C2_ControlRowRoundTrip ==
    (/\ pc = "returned"
     /\ cmd.op = "set_position"
     /\ cmd.args[1] = 8
     /\ cmd.args[2] \in 0..7)
    => /\ Len(calls) = 1
       /\ MatPosFromLaunchMessage(calls[1].msgs[1])
             = [row |-> 8, col |-> cmd.args[2]]

\* C3: write encoding.  set_position(8, col, c) with col in 0..7 sends the
\* single message {0xB0, 0x68 + col, c}; set_position(row, col, c) with row
\* in 0..7 sends {0x90, 0x10*row + col, c}.
C3_WriteEncoding ==
    (/\ pc = "returned"
     /\ cmd.op = "set_position"
     /\ \/ cmd.args[1] \in 0..7 /\ cmd.args[2] \in 0..8
        \/ cmd.args[1] = 8 /\ cmd.args[2] \in 0..7)
    => IF cmd.args[1] = 8
       THEN SentOne(LaunchMessage(176, 104 + cmd.args[2], cmd.args[3]))
       ELSE SentOne(LaunchMessage(144, 16 * cmd.args[1] + cmd.args[2],
                                  cmd.args[3]))

\* C4: set_duty_cycle(numerator, denominator) sends exactly one message:
\* with n the numerator clamped to 1..16 and d the denominator clamped to
\* 3..18, {0xB0, 0x1E, 16*(n-1) + (d-3)} when n < 9 and
\* {0xB0, 0x1F, 16*(n-9) + (d-3)} otherwise.
C4_DutyCycleFormula ==
    (/\ pc \in {"returned", "panicked"}
     /\ cmd.op = "set_duty_cycle")
    => LET n == IF cmd.args[1] < 1 THEN 1
                ELSE IF cmd.args[1] > 16 THEN 16 ELSE cmd.args[1]
           d == IF cmd.args[2] < 3 THEN 3
                ELSE IF cmd.args[2] > 18 THEN 18 ELSE cmd.args[2]
       IN  IF n < 9
           THEN SentOne(LaunchMessage(176, 30, 16 * (n - 1) + (d - 3)))
           ELSE SentOne(LaunchMessage(176, 31, 16 * (n - 9) + (d - 3)))

\* C5: set_duty_cycle is total.  No u8 operation it evaluates leaves
\* 0..255, it fails only when the transport write fails, and the data2 it
\* sends is at most 0x7F.
C5_DutyCycleTotal ==
    (/\ pc \in {"returned", "panicked"}
     /\ cmd.op = "set_duty_cycle")
    => /\ ~overflowed
       /\ result.tag # "Panic"
       /\ result.tag = "Err" => (Len(calls) = 1 /\ calls[1].res # "Ok")
       /\ \A i \in 1..Len(calls) : calls[i].msgs[1].data2 <= 127

\* C6: swap_buffers(copy) and hard_swap() (= swap_buffers(false)).  The new
\* low nibble is ZeroActive if the old one was OneActive and OneActive
\* otherwise, the new high nibble is 0x30 if copy and 0x20 if not, whatever
\* it was, and the new byte is sent as {0xB0, 0x00, byte}.  After
\* set_buffer_mode(OneActive, false), swap_buffers(true) leaves 0x34.
C6_SwapBuffers ==
    (/\ pc = "returned"
     /\ cmd.op \in {"swap_buffers", "hard_swap"})
    => LET copy == cmd.op = "swap_buffers" /\ cmd.args[1]
           low == prev_buffer % 16
       IN  /\ buffer_setting % 16
                = (IF low = OneActive THEN ZeroActive ELSE OneActive)
           /\ buffer_setting \div 16 = (IF copy THEN 3 ELSE 2)
           /\ SentOne(LaunchMessage(176, 0, buffer_setting))
           /\ (/\ copy
               /\ prev_mode_cmd.op = "set_buffer_mode"
               /\ prev_mode_cmd.args = <<OneActive, FALSE>>)
              => buffer_setting = 52

\* swap_buffers(true) right after set_buffer_mode(OneActive, false)
C6_Witness ==
    /\ pc = "returned"
    /\ cmd.op = "swap_buffers"
    /\ cmd.args[1]
    /\ prev_mode_cmd.op = "set_buffer_mode"
    /\ prev_mode_cmd.args = <<OneActive, FALSE>>
    /\ prev_buffer = 33
    /\ buffer_setting = 52

C8_VelocityForcing ==
    /\ is_double_buffered <=> buffer_setting % 16 \in {OneActive, ZeroActive}
    /\ (pc = "returned" /\ cmd.op = "send_note_msg")
       => LET on == cmd.args[1]
              key == cmd.args[2]
              vel == cmd.args[3]
              low == prev_buffer % 16
              \* vel with bits 2 and 3 set
              forced == 16 * (vel \div 16) + 12 + (vel % 4)
          IN  /\ low \in {ZeroOnly, OneOnly, OneActive, ZeroActive}
              /\ low \in {ZeroOnly, OneOnly}
                 => SentOne(LaunchMessage(IF on THEN 144 ELSE 128, key,
                                          forced))
              /\ low \in {OneActive, ZeroActive}
                 => SentOne(LaunchMessage(IF on THEN 144 ELSE 128, key, vel))

\* a note sent unaltered while the stored byte is 0x21
C8_Witness ==
    /\ pc = "returned"
    /\ cmd.op = "send_note_msg"
    /\ cmd.args = <<TRUE, 53, 3>>
    /\ prev_buffer = 33
    /\ calls[1].msgs[1].data2 = 3

\* C9: the stored buffer byte is changed only by set_buffer_mode,
\* disable_double_buffering, swap_buffers and hard_swap: every other command
\* leaves it as it was, whether it succeeds or fails; reset() sends
\* {0xB0, 0x00, 0x00} and select_mode(mode) sends {0xB0, 0x00, mode}.
C9_BufferFrame ==
    /\ cmd.op \in {"reset", "select_mode", "set_position", "set_all",
                   "set_matrix", "set_first_row", "blackout",
                   "full_blackout", "set_duty_cycle", "send_note_msg",
                   "send_ctl_msg", "send_messages", "poll",
                   "read_single_msg", "read_n_msgs"}
       => buffer_setting = prev_buffer
    /\ (pc = "returned" /\ cmd.op = "reset")
       => SentOne(LaunchMessage(176, 0, 0))
    /\ (pc = "returned" /\ cmd.op = "select_mode")
       => SentOne(LaunchMessage(176, 0, cmd.args[1]))

\* a failed reset() with 0x35 stored
C9_Witness ==
    /\ pc = "returned"
    /\ cmd.op = "reset"
    /\ result.tag = "Err"
    /\ prev_buffer = 53
    /\ buffer_setting = 53

\* C10: set_all(color) makes one write_messages call with 72 messages; the
\* message at index 9*row + col (from 0) is {0x90, 0x10*row + col, color},
\* for row in 0..7 and col in 0..8; blackout() does the same with 0x00.
C10_SetAll ==
    (/\ pc = "returned"
     /\ cmd.op \in {"set_all", "blackout"})
    => LET color == IF cmd.op = "set_all" THEN cmd.args[1] ELSE 0
       IN  /\ Len(calls) = 1
           /\ calls[1].fn = "write_messages"
           /\ Len(calls[1].msgs) = 72
           /\ \A row \in 0..7, col \in 0..8 :
                 calls[1].msgs[9 * row + col + 1]
                    = LaunchMessage(144, 16 * row + col, color)

\* set_all(YellOrange) was written and accepted
C10_Witness ==
    /\ pc = "returned"
    /\ cmd.op = "set_all"
    /\ cmd.args = <<51>>
    /\ calls[1].res = "Ok"
    /\ calls[1].msgs[72].data1 = 120

\* C11: set_matrix(grid) makes one write_messages call with 72 messages; the
\* message at index 9*row + col (from 0) is {0x90, 0x10*row + col,
\* grid[row][col]}; for a grid filled with one colour the batch is the one
\* set_all(color) emits.
C11_SetMatrix ==
    (/\ pc = "returned"
     /\ cmd.op = "set_matrix")
    => LET mat == cmd.args[1]
       IN  /\ Len(calls) = 1
           /\ calls[1].fn = "write_messages"
           /\ Len(calls[1].msgs) = 72
           /\ \A row \in 0..7, col \in 0..8 :
                 calls[1].msgs[9 * row + col + 1]
                    = LaunchMessage(144, 16 * row + col, mat[row][col])
           /\ \A color \in Color :
                 (\A row \in 0..7, col \in 0..8 : mat[row][col] = color)
                 => calls[1].msgs = set_all_batch(color)

\* set_matrix of the grid whose only lit cell is (2, 8) was written and
\* accepted: the message at index 26 carries the green
C11_Witness ==
    /\ pc = "returned"
    /\ cmd.op = "set_matrix"
    /\ cmd.args[1][2][8] = Green
    /\ cmd.args[1][0][0] = Black
    /\ calls[1].res = "Ok"
    /\ calls[1].msgs[27] = LaunchMessage(144, 40, Green)

\* C12: full_blackout() writes first the 72-message Black batch of set_all,
\* then the Control messages {0xB0, 0x68 + i, 0x00} for i = 0..7 in ascending
\* order, one write each; when a write fails no later write is made and its
\* error is returned.
C12_FullBlackout ==
    (/\ pc = "returned"
     /\ cmd.op = "full_blackout")
    => LET n == Len(calls)
       IN  /\ n \in 1..9
           /\ calls[1].fn = "write_messages"
           /\ Len(calls[1].msgs) = 72
           /\ \A row \in 0..7, col \in 0..8 :
                 calls[1].msgs[9 * row + col + 1]
                    = LaunchMessage(144, 16 * row + col, 0)
           /\ \A k \in 2..n :
                 /\ calls[k].fn = "write_message"
                 /\ calls[k].msgs = <<LaunchMessage(176, 104 + (k - 2), 0)>>
           /\ \A k \in 1..(n - 1) : calls[k].res = "Ok"
           /\ IF calls[n].res = "Ok"
              THEN n = 9 /\ result = [tag |-> "Ok", val |-> <<>>]
              ELSE result = [tag |-> "Err", val |-> <<calls[n].res>>]

\* full_blackout() whose write of {0xB0, 0x6A, 0x00} failed: four writes made
C12_Witness ==
    /\ pc = "returned"
    /\ cmd.op = "full_blackout"
    /\ Len(calls) = 4
    /\ calls[4].msgs[1].data1 = 106
    /\ calls[4].res = "Invalid"
    /\ result.tag = "Err"

\* C13: set_first_row(color) emits exactly 8 messages, in one batch, all
\* with status 0xB0 and data2 = color, with data1 = 0x68, 0x69, ..., 0x6F in
\* ascending order.
C13_SetFirstRow ==
    (/\ pc = "returned"
     /\ cmd.op = "set_first_row")
    => /\ Len(calls) = 1
       /\ calls[1].fn = "write_messages"
       /\ Len(calls[1].msgs) = 8
       /\ \A i \in 0..7 :
             calls[1].msgs[i + 1] = LaunchMessage(176, 104 + i, cmd.args[1])

\* set_first_row(Red) was written and accepted
C13_Witness ==
    /\ pc = "returned"
    /\ cmd.op = "set_first_row"
    /\ cmd.args = <<Red>>
    /\ calls[1].res = "Ok"
    /\ calls[1].msgs[8] = LaunchMessage(176, 111, Red)

\* C14: transport failures are propagated as they are, without retry.  In
\* every command, a transport call that returns an error is the last
\* transport call of the command, the command returns that same error, and
\* no transport call is made twice.
C14_ErrorsPropagated ==
    (pc \in {"returned", "panicked"})
    => /\ \A k \in 1..Len(calls) :
             calls[k].res # "Ok"
             => /\ k = Len(calls)
                /\ result.tag = "Err"
                /\ result.val = <<calls[k].res>>
       /\ \A j \in 1..Len(calls), k \in 1..Len(calls) :
             j < k
             => (calls[j].fn # calls[k].fn \/ calls[j].msgs # calls[k].msgs)

\* read_single_msg() whose read_n(1) failed with GenericBackendErr
C14_Witness ==
    /\ pc = "returned"
    /\ cmd.op = "read_single_msg"
    /\ Len(calls) = 1
    /\ calls[1].fn = "read_n"
    /\ calls[1].res = "GenericBackendErr"
    /\ result.tag = "Err"
    /\ result.val = <<"GenericBackendErr">>

\* C15: the key byte never exceeds 0x7F.  For every coordinate with row and
\* col in 0..8, the key of PadIdentifier::from(MatPos) and the data1 of
\* Key::from(MatPos) are at most 0x7F, and every message written by
\* set_position (on such a coordinate), set_all, set_matrix, set_first_row
\* and full_blackout has data1 <= 0x7F.
C15_KeyAtMost7F ==
    /\ (/\ pc = "returned"
        /\ cmd.op = "set_position"
        /\ cmd.args[1] \in 0..8
        /\ cmd.args[2] \in 0..8)
       => LET pos == [row |-> cmd.args[1], col |-> cmd.args[2]]
          IN  /\ PadIdentifierFromMatPos(pos).key <= 127
              /\ KeyFromMatPos(pos) <= 127
              /\ \A k \in 1..Len(calls) : calls[k].msgs[1].data1 <= 127
    /\ (/\ pc = "returned"
        /\ cmd.op \in {"set_all", "set_matrix", "set_first_row",
                       "full_blackout"})
       => \A k \in 1..Len(calls) :
             \A i \in 1..Len(calls[k].msgs) : calls[k].msgs[i].data1 <= 127

\* set_position(8, 8, Red): the corner of the data model, written with key 121
C15_Witness ==
    /\ pc = "returned"
    /\ cmd.op = "set_position"
    /\ cmd.args = <<8, 8, Red>>
    /\ PadIdentifierFromMatPos(MatPos(8, 8)).key = 112
    /\ calls[1].msgs[1].data1 = 121

\* C16: decoding an inbound message.  With status 0xB0 and data1 = k,
\* MatPos::from yields row 8 and col = k - 0x68, so that col is in 0..7
\* exactly when k is one of 0x68..0x6F; with any other status it yields
\* row = k / 16 and col = k % 16.
C16_DecodeControl ==
    (/\ pc = "returned"
     /\ cmd.op = "read_single_msg"
     /\ result.tag = "Ok"
     /\ result.val[1] = "Some")
    => LET msg == result.val[2]
           k == msg.data1
           pos == MatPosFromLaunchMessage(msg)
       IN  IF msg.status = 176
           THEN /\ pos.row = 8
                /\ pos.col = k - 104
                /\ pos.col \in 0..7 <=> k \in 104..111
           ELSE /\ pos.row = k \div 16
                /\ pos.col = k % 16

\* C17: the stored buffer byte follows what the transport accepted.  A
\* set_buffer_mode, disable_double_buffering, swap_buffers or hard_swap
\* whose write fails leaves the stored byte as it was before the call, and
\* one whose write succeeds leaves the byte it sent; as no other command
\* changes the stored byte, it is then always data2 of the last buffer-mode
\* message accepted, 0 before the first.
C17_StoredFollowsAccepted ==
    (/\ pc = "returned"
     /\ cmd.op \in {"set_buffer_mode", "disable_double_buffering",
                    "swap_buffers", "hard_swap"})
    => /\ Len(calls) = 1
       /\ IF calls[1].res = "Ok"
          THEN buffer_setting = calls[1].msgs[1].data2
          ELSE buffer_setting = prev_buffer

\* C18: reachable values of the stored buffer byte.  Construction leaves 0
\* and sends nothing; the byte is 0 exactly until the first buffer-mode
\* command is invoked, and from then on has high nibble 0x20 or 0x30 and low
\* nibble 0x00, 0x01, 0x04 or 0x05; so every message a buffer-mode command
\* sends is {0xB0, 0x00, d} with d >= 0x20, never the reset payload 0x00 nor
\* a mode-select payload 0x01 / 0x02.
C18_BufferByteValues ==
    /\ (mode_cmd.op = "new" /\ cmd.op = "new")
       => (buffer_setting = 0 /\ calls = <<>>)
    /\ buffer_setting = 0 <=> mode_cmd.op = "new"
    /\ buffer_setting # 0
       => /\ 16 * (buffer_setting \div 16) \in {32, 48}
          /\ buffer_setting % 16 \in {ZeroOnly, OneActive, ZeroActive, OneOnly}
    /\ (pc = "returned" /\ cmd.op \in ModeOps)
       => \A i \in 1..Len(calls) :
              /\ Len(calls[i].msgs) = 1
              /\ calls[i].msgs[1].status = 176
              /\ calls[i].msgs[1].data1 = 0
              /\ calls[i].msgs[1].data2 >= 32
              /\ calls[i].msgs[1].data2 \notin {0, XY, DrumRack}

\* disable_double_buffering(), the smallest byte a buffer-mode command
\* stores and sends, after another buffer-mode command
C18_Witness ==
    /\ pc = "returned"
    /\ cmd.op = "disable_double_buffering"
    /\ prev_buffer = 53
    /\ buffer_setting = 32
    /\ calls[1].msgs[1].data2 = 32

\* C19: swapping lands in a double-buffered state and is an involution
\* there.  After a successful swap_buffers or hard_swap is_double_buffered()
\* is true, and a send_note_msg that follows sends the velocity unaltered.
\* From OneActive or ZeroActive a successful swap goes to the other of the
\* two and the swap after it goes back to the original low nibble; from
\* ZeroOnly or OneOnly it goes to OneActive.  A single-buffer low nibble is
\* stored only when the last buffer-mode command was set_buffer_mode or
\* disable_double_buffering (or there was none).
C19_SwapInvolution ==
    LET swaps == {"swap_buffers", "hard_swap"}
        double == {OneActive, ZeroActive}
        single == {ZeroOnly, OneOnly}
        low == buffer_setting % 16
        plow == prev_buffer % 16
    IN  /\ (pc = "returned" /\ cmd.op \in swaps /\ result.tag = "Ok")
           => /\ is_double_buffered
              /\ plow \in single => low = OneActive
              /\ plow \in double
                 => /\ low \in double
                    /\ low # plow
                    \* the setting the next swap switches to
                    /\ swap_target = plow
              \* the second of two consecutive swaps
              /\ prev_mode_cmd.op \in swaps
                 => (plow \in double /\ low \in double /\ low # plow)
        /\ (pc = "returned" /\ cmd.op = "send_note_msg"
              /\ mode_cmd.op \in swaps)
           => /\ Len(calls) = 1
              /\ calls[1].msgs[1].data2 = cmd.args[3]
        /\ low \in single
           => mode_cmd.op \in {"new", "set_buffer_mode",
                               "disable_double_buffering"}

\* the second of two consecutive successful swap_buffers calls, back at
\* OneActive
C19_Witness ==
    /\ pc = "returned"
    /\ cmd.op = "swap_buffers"
    /\ result.tag = "Ok"
    /\ prev_mode_cmd.op = "swap_buffers"
    /\ prev_buffer % 16 = ZeroActive
    /\ buffer_setting % 16 = OneActive

=============================================================================
